---- MODULE Spec2Model ----
(***************************************************************************)
(* PollingService (src/src/services/polling.service.ts): a recurring timer *)
(* dispatches poll cycles; a cycle GETs the source, validates the response *)
(* against the schema and POSTs a success or an error notification to the  *)
(* webhook.  Each cycle is an async task suspended at its network calls.   *)
(***************************************************************************)
EXTENDS Integers, Sequences, FiniteSets, Bags, TLC

VARIABLES
    config,     \* PollingService.config (interval in minutes)
    schema,     \* PollingService.schema (which validator the instance holds)
    cronJob,    \* PollingService.cronJob: 0 = undefined, else index into timers
    timers,     \* every ScheduledTask cron.schedule has created, in order
    now,        \* wall clock: number of minute boundaries passed
    cycles,     \* the runPolling() tasks in flight (a bag of their states)
    completed,  \* the most recently settled runPolling() task
    started,    \* history of the latest start(): when, cycles it and its task ran,
                \* minute of its task's latest callback, gap between the last two
    process     \* the Node process: its environment, whether main() has run,
                \* what loadEnvs logged, the exit code

vars ==
    <<config, schema, cronJob, timers, now, cycles, completed, started, process>>

\* ---------------------------------------------------------------- bounds
MaxInFlight == 2    \* cycles suspended at the same time
MaxStarts == 2      \* calls of start()
MaxTime == 2        \* minute boundaries the clock passes

\* ---------------------------------------------------------------- JSON values
Num(n) == [kind |-> "number", n |-> n]
Str(s) == [kind |-> "string", s |-> s]
Undefined == [kind |-> "undefined"]
Null == [kind |-> "null"]
Obj(id, d, w, m) ==
    [kind |-> "object", id |-> id, daily_active_users |-> d,
     weekly_active_users |-> w, monthly_active_users |-> m]

NaN == [nan |-> TRUE, n |-> 0]
Finite(n) == [nan |-> FALSE, n |-> n]

DigitValue(ch) ==
    CASE ch = "0" -> 0 [] ch = "1" -> 1 [] ch = "2" -> 2 [] ch = "3" -> 3
      [] ch = "4" -> 4 [] ch = "5" -> 5 [] ch = "6" -> 6 [] ch = "7" -> 7
      [] ch = "8" -> 8 [] ch = "9" -> 9 [] OTHER -> -1

\* Number(s) of a string of characters: digits accumulate, "" is 0,
\* anything else is NaN.
RECURSIVE ParseDigits(_, _)
ParseDigits(s, acc) ==
    IF s = <<>> THEN Finite(acc)
    ELSE IF DigitValue(Head(s)) < 0 THEN NaN
    ELSE ParseDigits(Tail(s), acc * 10 + DigitValue(Head(s)))

\* z.coerce.number(): Number(input), then the number check.
ToNumber(v) ==
    CASE v.kind = "number" -> Finite(v.n)
      [] v.kind = "string" -> ParseDigits(v.s, 0)
      [] v.kind = "null" -> Finite(0)
      [] OTHER -> NaN

\* JavaScript truthiness, as `if (data)` evaluates it.
Truthy(v) ==
    CASE v.kind = "number" -> v.n # 0
      [] v.kind = "string" -> v.s # <<>>
      [] v.kind = "object" -> TRUE
      [] OTHER -> FALSE

\* ---------------------------------------------------------------- schemas
Schemas == {"payloadSchema", "z.number"}

NumberFields ==
    <<"daily_active_users", "weekly_active_users", "monthly_active_users">>

Issue(path, message) == [path |-> path, message |-> message]

StringIssues(v) ==
    IF v.id.kind = "string" THEN <<>>
    ELSE IF v.id.kind = "undefined" THEN <<Issue("id", "Required")>>
    ELSE <<Issue("id", "Expected string, received " \o v.id.kind)>>

RECURSIVE CoerceIssues(_, _)
CoerceIssues(v, fields) ==
    IF fields = <<>> THEN <<>>
    ELSE (IF ToNumber(v[Head(fields)]).nan
          THEN <<Issue(Head(fields), "Expected number, received nan")>>
          ELSE <<>>) \o CoerceIssues(v, Tail(fields))

PayloadIssues(v) ==
    IF v.kind # "object"
    THEN <<Issue("", "Expected object, received " \o v.kind)>>
    ELSE StringIssues(v) \o CoerceIssues(v, NumberFields)

\* schema.safeParse(input): {success, data} or {success, error}.
SafeParse(sch, v) ==
    IF sch = "z.any"
    THEN [success |-> TRUE, data |-> v, issues |-> <<>>]
    ELSE IF sch = "z.number"
    THEN IF v.kind = "number"
         THEN [success |-> TRUE, data |-> v, issues |-> <<>>]
         ELSE [success |-> FALSE, data |-> Null,
               issues |-> <<Issue("", "Expected number, received " \o v.kind)>>]
    ELSE LET issues == PayloadIssues(v) IN
         IF issues # <<>>
         THEN [success |-> FALSE, data |-> Null, issues |-> issues]
         ELSE [success |-> TRUE,
               data |-> Obj(v.id,
                            Num(ToNumber(v.daily_active_users).n),
                            Num(ToNumber(v.weekly_active_users).n),
                            Num(ToNumber(v.monthly_active_users).n)),
               issues |-> <<>>]

\* ZodError.message: the issues serialised, one path and one message each.
RECURSIVE ErrorMessage(_)
ErrorMessage(issues) ==
    IF issues = <<>> THEN <<>>
    ELSE <<Head(issues).path, Head(issues).message>> \o ErrorMessage(Tail(issues))

\* ---------------------------------------------------------------- the source
\* What the source can answer a GET with.
Payloads ==
    { Num(0), Num(7),
      Obj(Str(<<"u", "1">>), Str(<<"1", "2">>), Num(50), Num(200)),
      Obj(Str(<<"u", "1">>), Undefined, Undefined, Undefined) }

GetFailures ==
    { [ok |-> FALSE, status |-> 0, message |-> "connect ECONNREFUSED"],
      [ok |-> FALSE, status |-> 500,
       message |-> "Request failed with status code 500"] }

Responses == GetFailures \cup { [ok |-> TRUE, data |-> p] : p \in Payloads }

\* ---------------------------------------------------------------- messages
\* Message texts are sequences of parts; a template literal concatenates.
RECURSIVE IsPrefix(_, _)
IsPrefix(p, s) ==
    IF p = <<>> THEN TRUE
    ELSE IF s = <<>> THEN FALSE
    ELSE Head(p) = Head(s) /\ IsPrefix(Tail(p), Tail(s))

RECURSIVE Contains(_, _)
Contains(s, part) ==
    IF IsPrefix(part, s) THEN TRUE
    ELSE IF s = <<>> THEN FALSE
    ELSE Contains(Tail(s), part)

Count(trace, e) == Cardinality({i \in DOMAIN trace : trace[i] = e})
Has(trace, e) == \E i \in DOMAIN trace : trace[i] = e

\* ---------------------------------------------------------------- one cycle
NoResp == [ok |-> FALSE, status |-> -1, message |-> ""]
NoBody == [type |-> "none"]
\* fetched is what fetchData returned, Undefined while it has not returned.
NoCycle ==
    [pc |-> "idle", resp |-> NoResp, fetched |-> Undefined, body |-> NoBody,
     trace |-> <<>>]

ErrorBody(errorMessage) ==
    [type |-> "error", title |-> "Polling Error", description |-> errorMessage]
SuccessBody(data) == [type |-> "success", payload |-> data]

Log(c, events) == [c EXCEPT !.trace = @ \o events]

\* The async function's promise settles: fulfilled, or rejected to the caller.
Returned(c) == [Log(c, <<"returned">>) EXCEPT !.pc = "done"]
Rejected(c) == [Log(c, <<"rejected">>) EXCEPT !.pc = "done"]

\* sendErrorToDiscord up to its await: the embed is built and the POST is sent.
SendErrorToDiscord(c, errorMessage) ==
    [Log(c, <<"postError">>) EXCEPT !.pc = "postingError",
                                     !.body = ErrorBody(errorMessage)]

\* A sendErrorToDiscord without its catch block.
SendErrorToDiscordRethrows(ok) == IF ok THEN "return" ELSE "throw"

\* sendErrorToDiscord after its POST settled: "return", or "throw" when the
\* failure leaves the function.  The catch block swallows every failure.
SendErrorToDiscordSettled(ok) == "return"

\* A sendToDiscord that reports a throwing templateFn to the webhook.
SendToDiscordReportsThrow(c, data, templateThrows) ==
    IF templateThrows
    THEN [Log(c, <<"transform", "transformThrew", "postError">>) EXCEPT
              !.pc = "postingError", !.body = ErrorBody(<<"templateFn threw">>)]
    ELSE [Log(c, <<"transform", "postSuccess">>) EXCEPT
              !.pc = "postingSuccess", !.body = SuccessBody(data)]

\* sendToDiscord up to its await: templateFn runs, then the POST is sent; a
\* throwing templateFn is caught and the function returns without a POST.
SendToDiscord(c, data, templateThrows) ==
    IF templateThrows
    THEN Returned(Log(c, <<"transform", "transformThrew">>))
    ELSE [Log(c, <<"transform", "postSuccess">>) EXCEPT
              !.pc = "postingSuccess", !.body = SuccessBody(data)]

\* A sendToDiscord without its catch block.
SendToDiscordRethrows(ok) == IF ok THEN "return" ELSE "throw"

\* sendToDiscord after its POST settled.
SendToDiscordSettled(ok) == "return"

\* runPolling after `await this.fetchData()`.
RunPollingAfterFetch(c, data, templateThrows) ==
    LET fetched == [c EXCEPT !.fetched = data] IN
    IF Truthy(data)
    THEN SendToDiscord(fetched, data, templateThrows)
    ELSE Returned(fetched)

\* runPolling up to its first await: fetchData has sent the GET.
RunPolling == [NoCycle EXCEPT !.pc = "fetching", !.trace = <<"get">>]

\* A catch block that only logs.
FetchDataCatchLogsOnly(c, message) == Returned(Log(c, <<"catch">>))

\* A catch block that waits for a retry signal nobody sends.
FetchDataCatchWaits(c, message) ==
    [Log(c, <<"catch">>) EXCEPT !.pc = "waiting"]

\* fetchData's catch block.
FetchDataCatch(c, message) ==
    SendErrorToDiscord(Log(c, <<"catch">>), <<"Error fetching data: ", message>>)

\* A fetchData that reports a refused payload without the validator's message.
FetchDataAfterGetNoMessage(sch, c, resp, templateThrows) ==
    LET got == [c EXCEPT !.resp = resp] IN
    IF ~resp.ok
    THEN FetchDataCatch(Log(got, <<"getFailed">>), resp.message)
    ELSE LET validationResult == SafeParse(sch, resp.data) IN
         IF ~validationResult.success
         THEN SendErrorToDiscord(
                  Log(got, <<"getOk", "validateFailed">>),
                  <<"Schema validation failed">>)
         ELSE RunPollingAfterFetch(Log(got, <<"getOk", "validateOk">>),
                                   validationResult.data, templateThrows)

\* A fetchData that hands on the response body without validating it.
FetchDataAfterGetUnvalidated(sch, c, resp, templateThrows) ==
    LET got == [c EXCEPT !.resp = resp] IN
    IF ~resp.ok
    THEN FetchDataCatch(Log(got, <<"getFailed">>), resp.message)
    ELSE RunPollingAfterFetch(Log(got, <<"getOk">>), resp.data, templateThrows)

\* fetchData from the GET settling to its next await or its return.
FetchDataAfterGet(sch, c, resp, templateThrows) ==
    LET got == [c EXCEPT !.resp = resp] IN
    IF ~resp.ok
    THEN FetchDataCatch(Log(got, <<"getFailed">>), resp.message)
    ELSE LET validationResult == SafeParse(sch, resp.data) IN
         IF ~validationResult.success
         THEN SendErrorToDiscord(
                  Log(got, <<"getOk", "validateFailed">>),
                  <<"Schema validation failed: ">>
                      \o ErrorMessage(validationResult.issues))
         ELSE RunPollingAfterFetch(Log(got, <<"getOk", "validateOk">>),
                                   validationResult.data, templateThrows)

\* The error POST of c was sent from fetchData's try block (the validation
\* branch), so a failure leaving sendErrorToDiscord would reach the catch.
InTry(c) == Has(c.trace, "validateFailed") /\ ~Has(c.trace, "catch")

\* The cycle from its webhook POST settling to its next await or its end.
AfterPost(c, ok) ==
    LET settled == Log(c, <<IF ok THEN "postOk" ELSE "postFailed">>) IN
    IF c.pc = "postingError"
    THEN IF SendErrorToDiscordSettled(ok) = "return"
         THEN RunPollingAfterFetch(settled, Null, FALSE)
         ELSE IF InTry(c)
              THEN FetchDataCatch(settled, "Request failed")
              ELSE Rejected(settled)
    ELSE IF SendToDiscordSettled(ok) = "return"
         THEN Returned(settled)
         ELSE Rejected(settled)

\* ---------------------------------------------------------------- scheduler
Intervals == {1, 2}

\* The expression `0 * * * *`: the top of the hour only.
CronMatchesHourly(n, minute) == minute % 60 = 0

\* node-cron's `*/n * * * *`: the minutes of the hour that are multiples of n.
CronMatches(n, minute) == (minute % 60) % n = 0

\* cron.schedule(expression, callback): a new task, running at once.
Schedule(n) == [active |-> TRUE, pending |-> FALSE, every |-> n]

One(c) == SetToBag({c})
CanDispatch == BagCardinality(cycles) < MaxInFlight

\* The running tasks whose expression matches a minute.
DueAt(minute) ==
    {t \in DOMAIN timers :
        timers[t].active /\ CronMatches(timers[t].every, minute)}

\* No callback is waiting to run.  A callback that is due runs before any
\* other event is handled: the event loop runs expired timers first.
NoCallbackDue == \A t \in DOMAIN timers : ~timers[t].pending

\* this.runPolling(), not awaited: the task runs to its first await.
Dispatch == cycles' = cycles (+) One(RunPolling)

\* Task c reaches its next await as c2, or settles and is gone.
Resume(c, c2) ==
    IF c2.pc = "done"
    THEN cycles' = cycles (-) One(c) /\ completed' = c2
    ELSE cycles' = (cycles (-) One(c)) (+) One(c2) /\ UNCHANGED completed

\* The event loop of the process is running: process.exit has not been called.
Alive == process.phase = "running"

\* A process that constructs the service itself, without main().
Embedding ==
    [phase |-> "running", env |-> <<>>, diagnostic |-> <<>>, exitCode |-> -1]

NotStarted == [at |-> 0, immediate |-> 0, fired |-> 0, last |-> 0, gap |-> 0]

Init ==
    /\ config \in { [url |-> "POLL_URL", interval |-> i,
                     webhookUrl |-> "DISCORD_WEBHOOK_URL"] : i \in Intervals }
    /\ schema \in Schemas
    /\ cronJob = 0
    /\ timers = <<>>
    /\ now = 0
    /\ cycles = EmptyBag
    /\ completed = NoCycle
    /\ started = NotStarted
    /\ process = Embedding

\* A start() that registers a task only when the service has none yet.
StartKeepsTask ==
    /\ Len(timers) < MaxStarts
    /\ NoCallbackDue
    /\ CanDispatch
    /\ Dispatch
    /\ timers' = IF cronJob = 0
                 THEN Append(timers, Schedule(config.interval))
                 ELSE timers
    /\ cronJob' = IF cronJob = 0 THEN 1 ELSE cronJob
    /\ started' = [at |-> now, fired |-> 0, last |-> 0, gap |-> 0,
                   immediate |-> BagCardinality(cycles') - BagCardinality(cycles)]
    /\ UNCHANGED <<process, config, schema, now, completed>>

\* start() of a service whose config.interval is interval: one cycle at
\* once, then the recurring task replaces this.cronJob.
StartWith(interval) ==
    /\ Len(timers) < MaxStarts
    /\ NoCallbackDue
    /\ CanDispatch
    /\ Dispatch
    /\ timers' = Append(timers, Schedule(interval))
    /\ cronJob' = Len(timers) + 1
    /\ started' = [at |-> now, fired |-> 0, last |-> 0, gap |-> 0,
                   immediate |-> BagCardinality(cycles') - BagCardinality(cycles)]
    /\ UNCHANGED <<now, completed>>

\* start() called on the constructed service.
Start ==
    /\ StartWith(config.interval)
    /\ UNCHANGED <<process, config, schema>>

\* A stop() that flips the task between running and stopped.
StopToggles ==
    /\ NoCallbackDue
    /\ timers' = IF cronJob # 0
                 THEN [timers EXCEPT ![cronJob].active = ~@,
                                     ![cronJob].pending = FALSE]
                 ELSE timers
    /\ UNCHANGED <<process, config, schema, cronJob, now, cycles, completed, started>>

\* A stop() that also forgets the task: this.cronJob = undefined.
StopClearsHandle ==
    /\ NoCallbackDue
    /\ timers' = IF cronJob # 0
                 THEN [timers EXCEPT ![cronJob].active = FALSE,
                                     ![cronJob].pending = FALSE]
                 ELSE timers
    /\ cronJob' = 0
    /\ UNCHANGED <<process, config, schema, now, cycles, completed, started>>

\* A stop() that also abandons the cycles in flight.
StopCancelsCycles ==
    /\ NoCallbackDue
    /\ timers' = IF cronJob # 0
                 THEN [timers EXCEPT ![cronJob].active = FALSE,
                                     ![cronJob].pending = FALSE]
                 ELSE timers
    /\ cycles' = EmptyBag
    /\ UNCHANGED <<process, config, schema, cronJob, now, completed, started>>

\* stop(): stops the task this.cronJob refers to, if any.
Stop ==
    /\ NoCallbackDue
    /\ timers' = IF cronJob # 0
                 THEN [timers EXCEPT ![cronJob].active = FALSE,
                                     ![cronJob].pending = FALSE]
                 ELSE timers
    /\ UNCHANGED <<process, config, schema, cronJob, now, cycles, completed, started>>

\* The wall clock passes a minute boundary: every running task whose
\* expression matches the new minute is due.  The clock is followed until it
\* shows MaxTime minutes past the hour.
MinuteBoundary ==
    /\ Alive
    /\ (now % 60) # MaxTime
    /\ NoCallbackDue
    /\ BagCardinality(cycles) + Cardinality(DueAt(now + 1)) <= MaxInFlight
    /\ now' = now + 1
    /\ timers' = [t \in DOMAIN timers |->
                    IF t \in DueAt(now + 1)
                    THEN [timers[t] EXCEPT !.pending = TRUE]
                    ELSE timers[t]]
    /\ UNCHANGED <<process, config, schema, cronJob, cycles, completed, started>>

\* A callback that skips its tick while an earlier cycle is still in flight.
FireSkipsWhenBusy(t) ==
    /\ Alive
    /\ timers[t].active /\ timers[t].pending
    /\ cycles = EmptyBag
    /\ Dispatch
    /\ timers' = [timers EXCEPT ![t].pending = FALSE]
    /\ started' = IF t = cronJob
                  THEN [started EXCEPT !.fired = @ + 1, !.last = now,
                            !.gap = IF started.fired = 0 THEN 0
                                    ELSE now - started.last]
                  ELSE started
    /\ UNCHANGED <<process, config, schema, cronJob, now, completed>>

\* The callback of task t: () => { this.runPolling(); }
Fire(t) ==
    /\ Alive
    /\ timers[t].active /\ timers[t].pending
    /\ CanDispatch
    /\ Dispatch
    /\ timers' = [timers EXCEPT ![t].pending = FALSE]
    /\ started' = IF t = cronJob
                  THEN [started EXCEPT
                            !.fired = @ + 1,
                            !.last = now,
                            !.gap = IF started.fired = 0 THEN 0
                                    ELSE now - started.last]
                  ELSE started
    /\ UNCHANGED <<process, config, schema, cronJob, now, completed>>

\* A GET handler that stops the scheduler when the GET failed.
GetSettlesStopsOnFailure(c, resp, templateThrows) ==
    /\ Alive
    /\ NoCallbackDue
    /\ c.pc = "fetching"
    /\ Resume(c, FetchDataAfterGet(schema, c, resp, templateThrows))
    /\ timers' = IF ~resp.ok /\ cronJob # 0
                 THEN [timers EXCEPT ![cronJob].active = FALSE,
                                     ![cronJob].pending = FALSE]
                 ELSE timers
    /\ UNCHANGED <<process, config, schema, cronJob, now, started>>

\* The GET of in-flight cycle c settles with response resp.
GetSettles(c, resp, templateThrows) ==
    /\ Alive
    /\ NoCallbackDue
    /\ c.pc = "fetching"
    /\ Resume(c, FetchDataAfterGet(schema, c, resp, templateThrows))
    /\ UNCHANGED <<process, config, schema, cronJob, timers, now, started>>

\* The webhook POST of in-flight cycle c settles.
PostSettles(c, ok) ==
    /\ Alive
    /\ NoCallbackDue
    /\ c.pc \in {"postingError", "postingSuccess"}
    /\ Resume(c, AfterPost(c, ok))
    /\ UNCHANGED <<process, config, schema, cronJob, timers, now, started>>

Next ==
    \/ Start
    \/ Stop
    \/ MinuteBoundary
    \/ \E t \in DOMAIN timers : Fire(t)
    \/ \E c \in BagToSet(cycles), resp \in Responses, templateThrows \in BOOLEAN :
           GetSettles(c, resp, templateThrows)
    \/ \E c \in BagToSet(cycles), ok \in BOOLEAN : PostSettles(c, ok)

Spec == Init /\ [][Next]_vars

\* The service in a process whose event loop runs every callback that is due
\* and whose network calls all settle: each GET and each POST eventually
\* resolves or rejects.  Constructed with either schema, polling every
\* second minute.
InitLive == Init /\ config.interval = 2

SpecLive ==
    /\ InitLive
    /\ [][Next]_vars
    /\ WF_vars(\E t \in DOMAIN timers : Fire(t))
    /\ WF_vars(\E c \in BagToSet(cycles), resp \in Responses,
                  templateThrows \in BOOLEAN :
                    GetSettles(c, resp, templateThrows))
    /\ WF_vars(\E c \in BagToSet(cycles), ok \in BOOLEAN : PostSettles(c, ok))

\* The service constructed with a schema that accepts every JSON value, and
\* a source that can also answer with the JSON value null.
NullableResponses == Responses \cup { [ok |-> TRUE, data |-> Null] }

InitAny ==
    /\ config \in { [url |-> "POLL_URL", interval |-> i,
                     webhookUrl |-> "DISCORD_WEBHOOK_URL"] : i \in Intervals }
    /\ schema = "z.any"
    /\ cronJob = 0
    /\ timers = <<>>
    /\ now = 0
    /\ cycles = EmptyBag
    /\ completed = NoCycle
    /\ started = NotStarted
    /\ process = Embedding

NextAny ==
    \/ Start
    \/ Stop
    \/ MinuteBoundary
    \/ \E t \in DOMAIN timers : Fire(t)
    \/ \E c \in BagToSet(cycles), resp \in NullableResponses,
          templateThrows \in BOOLEAN :
           GetSettles(c, resp, templateThrows)
    \/ \E c \in BagToSet(cycles), ok \in BOOLEAN : PostSettles(c, ok)

SpecAny == InitAny /\ [][NextAny]_vars

\* The same service constructed five minutes before the end of an hour, with
\* intervals whose multiples do not end on the hour boundary within the window.
CronIntervals == {3, 7}
InitCron ==
    /\ config \in { [url |-> "POLL_URL", interval |-> i,
                     webhookUrl |-> "DISCORD_WEBHOOK_URL"] : i \in CronIntervals }
    /\ schema = "payloadSchema"
    /\ cronJob = 0
    /\ timers = <<>>
    /\ now = 55
    /\ cycles = EmptyBag
    /\ completed = NoCycle
    /\ started = NotStarted
    /\ process = Embedding

SpecCron == InitCron /\ [][Next]_vars

\* ---------------------------------------------------------------- main()
EnvFields == <<"POLL_URL", "POLL_INTERVAL", "DISCORD_WEBHOOK_URL">>

\* z.string().url() accepts what `new URL(s)` parses: a scheme of letters, a
\* colon, and a rest.  Strings are sequences of characters.
SchemeChars == {"h", "t", "p", "s"}
IsUrl(s) ==
    \E i \in 2 .. Len(s) - 1 :
        s[i] = ":" /\ \A j \in 1 .. i - 1 : s[j] \in SchemeChars

UrlIssues(path, v) ==
    IF v.kind # "string" THEN <<Issue(path, "Required")>>
    ELSE IF ~IsUrl(v.s) THEN <<Issue(path, "Invalid url")>>
    ELSE <<>>

\* z.coerce.number().int().positive(); Number() of a string of digits is an
\* integer, so the int() check adds no issue for the values drawn here.
IntervalIssues(path, v) ==
    LET n == ToNumber(v) IN
    IF n.nan THEN <<Issue(path, "Expected number, received nan")>>
    ELSE IF n.n <= 0 THEN <<Issue(path, "Number must be greater than 0")>>
    ELSE <<>>

\* EnvSchema.safeParse(env): an object schema collects the issues of all keys.
EnvSafeParse(env) ==
    LET issues == UrlIssues("POLL_URL", env.POLL_URL)
                      \o IntervalIssues("POLL_INTERVAL", env.POLL_INTERVAL)
                      \o UrlIssues("DISCORD_WEBHOOK_URL", env.DISCORD_WEBHOOK_URL)
    IN  IF issues # <<>>
        THEN [success |-> FALSE, issues |-> issues]
        ELSE [success |-> TRUE, issues |-> <<>>,
              data |-> [POLL_URL |-> env.POLL_URL.s,
                        POLL_INTERVAL |-> ToNumber(env.POLL_INTERVAL).n,
                        DISCORD_WEBHOOK_URL |-> env.DISCORD_WEBHOOK_URL.s]]

\* A loadEnvs that reports the first issue only.
LoadEnvsFirstIssueOnly(env) ==
    LET result == EnvSafeParse(env) IN
    IF ~result.success
    THEN [threw |-> TRUE, logged |-> <<Head(result.issues)>>]
    ELSE [threw |-> FALSE, logged |-> <<>>, data |-> result.data]

\* loadEnvs(): the validated settings, or one logged line per issue and a throw.
LoadEnvs(env) ==
    LET result == EnvSafeParse(env) IN
    IF ~result.success
    THEN [threw |-> TRUE, logged |-> result.issues]
    ELSE [threw |-> FALSE, logged |-> <<>>, data |-> result.data]

\* What process.env can hold for a URL setting and for POLL_INTERVAL.
UrlSettings ==
    { Undefined, Str(<<>>), Str(<<"a">>), Str(<<"h", ":", "/", "/", "a">>) }
IntervalSettings ==
    { Undefined, Str(<<>>), Str(<<"0">>), Str(<<"1">>), Str(<<"2">>),
      Str(<<"x">>) }
Envs ==
    [POLL_URL : UrlSettings, POLL_INTERVAL : IntervalSettings,
     DISCORD_WEBHOOK_URL : UrlSettings]

NoConfig == [url |-> <<>>, interval |-> 0, webhookUrl |-> <<>>]

\* The process before main() runs: no service exists yet.
InitMain ==
    /\ process \in { [phase |-> "main", env |-> e, diagnostic |-> <<>>,
                       exitCode |-> -1] : e \in Envs }
    /\ config = NoConfig
    /\ schema = "undefined"
    /\ cronJob = 0
    /\ timers = <<>>
    /\ now = 0
    /\ cycles = EmptyBag
    /\ completed = NoCycle
    /\ started = NotStarted

\* main(): loadEnvs, then the service is constructed and started and the
\* signal handlers are registered; a throw on the way exits with code 1.
Main ==
    /\ process.phase = "main"
    /\ LET loaded == LoadEnvs(process.env) IN
       IF loaded.threw
       THEN /\ process' = [process EXCEPT !.phase = "exited", !.exitCode = 1,
                                          !.diagnostic = loaded.logged]
            /\ UNCHANGED <<config, schema, cronJob, timers, now, cycles,
                           completed, started>>
       ELSE /\ config' = [url |-> loaded.data.POLL_URL,
                          interval |-> loaded.data.POLL_INTERVAL,
                          webhookUrl |-> loaded.data.DISCORD_WEBHOOK_URL]
            /\ schema' = "payloadSchema"
            /\ StartWith(loaded.data.POLL_INTERVAL)
            /\ process' = [process EXCEPT !.phase = "running"]

\* The SIGINT or SIGTERM handler: stop(), then process.exit(0).
Shutdown ==
    /\ Alive
    /\ NoCallbackDue
    /\ timers' = IF cronJob # 0
                 THEN [timers EXCEPT ![cronJob].active = FALSE,
                                     ![cronJob].pending = FALSE]
                 ELSE timers
    /\ process' = [process EXCEPT !.phase = "exited", !.exitCode = 0]
    /\ UNCHANGED <<config, schema, cronJob, now, cycles, completed, started>>

NextMain ==
    \/ Main
    \/ Shutdown
    \/ MinuteBoundary
    \/ \E t \in DOMAIN timers : Fire(t)
    \/ \E c \in BagToSet(cycles), resp \in Responses, templateThrows \in BOOLEAN :
           GetSettles(c, resp, templateThrows)
    \/ \E c \in BagToSet(cycles), ok \in BOOLEAN : PostSettles(c, ok)

SpecMain == InitMain /\ [][NextMain]_vars

TypeOK ==
    /\ cronJob \in 0 .. Len(timers)
    /\ now \in 0 .. MaxTime
    /\ \A c \in BagToSet(cycles) :
           c.pc \in {"fetching", "postingError", "postingSuccess"}
    /\ completed.pc \in {"idle", "done"}

\* ---------------------------------------------------------------- properties
Done == completed.pc = "done"
Last(trace) == trace[Len(trace)]

\* Every cycle the state shows: those in flight and the one settled last.
AllCycles == BagToSet(cycles) \cup (IF Done THEN {completed} ELSE {})

SuccessPosts(c) == Count(c.trace, "postSuccess")
ErrorPosts(c) == Count(c.trace, "postError")

\* POSTs of one kind that the webhook accepted.
Delivered(c, kind) ==
    Cardinality({i \in DOMAIN c.trace :
        c.trace[i] = kind /\ i < Len(c.trace) /\ c.trace[i + 1] = "postOk"})

\* The GET of c answered with a payload the schema accepts / rejects.
Accepted(c) == c.resp.ok /\ SafeParse(schema, c.resp.data).success
Refused(c) == c.resp.ok /\ ~SafeParse(schema, c.resp.data).success
GetFailed(c) == c.pc # "fetching" /\ ~c.resp.ok
Failed(c) ==
    Has(c.trace, "getFailed") \/ Has(c.trace, "validateFailed")
        \/ Has(c.trace, "postFailed")

ActiveTimers == {t \in DOMAIN timers : timers[t].active}

\* stop() was the last lifecycle call: the task cronJob refers to is stopped.
Stopped == cronJob # 0 /\ ~timers[cronJob].active

\* This step is the callback of some task running.
FireStep ==
    \E t \in DOMAIN timers :
        timers[t].pending /\ timers'[t].active /\ ~timers'[t].pending

\* This step resumes a suspended cycle: it goes on to its next await or settles.
CycleStep ==
    cycles' # cycles /\ BagCardinality(cycles') <= BagCardinality(cycles)

C2_AtMostOneTimer == Cardinality(ActiveTimers) <= 1

\* C3 as stated: once stop() has returned, no timer callback runs until
\* start() is called again.
C3_NoFiringAfterStop == [][Stopped => ~FireStep]_vars

\* C4 as stated: a cycle whose GET returned a payload the schema accepts and
\* whose webhook accepted what it was sent (no POST failed, the transform
\* returned) made one success delivery and no error POST.
C4_ValidPayloadDelivered ==
    (/\ Done
     /\ Accepted(completed)
     /\ ~Has(completed.trace, "postFailed")
     /\ ~Has(completed.trace, "transformThrew"))
    => /\ Delivered(completed, "postSuccess") = 1
       /\ ErrorPosts(completed) = 0

\* C5: a cycle whose payload the schema refuses makes exactly one error POST,
\* whose description contains the validator's message, makes no success POST
\* and never calls the transform.
C5_RefusedPayloadReported ==
    \A c \in AllCycles :
        Refused(c) =>
            /\ ErrorPosts(c) = 1
            /\ SuccessPosts(c) = 0
            /\ ~Has(c.trace, "transform")
            /\ c.body.type = "error"
            /\ ErrorMessage(SafeParse(schema, c.resp.data).issues) # <<>>
            /\ Contains(c.body.description,
                        ErrorMessage(SafeParse(schema, c.resp.data).issues))

\* The object without its number fields was refused and reported, naming a
\* missing field.
C5_Witness ==
    /\ Done
    /\ Refused(completed)
    /\ completed.resp.data.kind = "object"
    /\ Contains(completed.body.description, <<"daily_active_users">>)
    /\ Last(completed.trace) = "returned"

\* C6: a cycle whose GET failed (network error or non-2xx status) makes
\* exactly one error POST and no success POST.
C6_GetFailureReported ==
    \A c \in AllCycles :
        GetFailed(c) => ErrorPosts(c) = 1 /\ SuccessPosts(c) = 0

\* A cycle whose GET was answered 500 settled after its one error POST.
C6_Witness ==
    /\ Done
    /\ GetFailed(completed)
    /\ completed.resp.status = 500
    /\ ErrorPosts(completed) = 1

\* C7: no cycle makes more than one webhook POST; a failed POST, of either
\* kind, is followed by no other POST of that cycle.
C7_AtMostOnePost ==
    \A c \in AllCycles :
        /\ SuccessPosts(c) + ErrorPosts(c) <= 1
        /\ Has(c.trace, "postFailed") => c.pc = "done"

\* A cycle settled after its error POST, sent for a refused payload, failed.
C7_Witness ==
    /\ Done
    /\ Refused(completed)
    /\ Has(completed.trace, "postFailed")
    /\ ErrorPosts(completed) = 1

\* C8: runPolling's promise is never rejected: every settled cycle returned.
C8_NeverRejects == Done => Last(completed.trace) = "returned"

\* Cycles settled by returning after the templateFn threw.
C8_Witness ==
    /\ Done
    /\ Has(completed.trace, "transformThrew")
    /\ Last(completed.trace) = "returned"

\* C9: no step of a cycle, whether it meets a GET failure, a refused payload
\* or a failed POST, changes a timer or cronJob, and a timer callback that
\* runs after a failed cycle has settled dispatches a fresh cycle at its GET.
C9_FailureKeepsScheduler ==
    [][/\ CycleStep => UNCHANGED <<timers, cronJob>>
       /\ (Done /\ Failed(completed) /\ FireStep)
              => CopiesIn(RunPolling, cycles')
                     = CopiesIn(RunPolling, cycles) + 1]_vars

\* A cycle failed, the task of start() is still running and has fired, and
\* a cycle is at its GET.
C9_Witness ==
    /\ Done
    /\ Failed(completed)
    /\ cronJob # 0
    /\ timers[cronJob].active
    /\ started.fired >= 1
    /\ BagIn(RunPolling, cycles)

\* C10: start() has dispatched exactly one cycle itself, and with an
\* interval of 1 minute the task it registered, while running, has brought
\* the cycles started to at least 2 once 2 minute boundaries have passed.
C10_ImmediateAndFirstTick ==
    cronJob # 0 =>
        /\ started.immediate = 1
        /\ (/\ timers[cronJob].active
            /\ timers[cronJob].every = 1
            /\ now >= started.at + 2)
           => started.immediate + started.fired >= 2

\* Two boundaries after a start() with interval 1, still running.
C10_Witness ==
    /\ cronJob # 0
    /\ timers[cronJob].active
    /\ timers[cronJob].every = 1
    /\ now >= started.at + 2
    /\ started.immediate + started.fired >= 2

\* C11 as stated: any two consecutive callbacks of the task start()
\* registered are config.interval minutes apart.
C11_FiresEveryInterval ==
    (cronJob # 0 /\ started.fired >= 2)
        => started.gap = timers[cronJob].every

\* C12: stop() with no running task of its own -- before any start(), or again
\* after stop() -- changes nothing: no state differing from the current one
\* can result from it.
NoTimerOfOurs == cronJob = 0 \/ ~timers[cronJob].active
C12_StopIsIdempotent ==
    NoTimerOfOurs => ~ENABLED (Stop /\ vars' # vars)

\* stop() has been called after start(), and may be called again.
C12_Witness == cronJob # 0 /\ ~timers[cronJob].active /\ ENABLED Stop

\* C13: a due callback of a running task can always run and dispatch a cycle,
\* whatever cycles are still suspended on their GET or POST.
C13_FiringNotBlocked ==
    \A t \in DOMAIN timers :
        (timers[t].active /\ timers[t].pending)
            => ENABLED (Fire(t) /\ BagCardinality(cycles')
                                      = BagCardinality(cycles) + 1)

\* Two cycles are in flight at once, the later one dispatched by a callback
\* while the earlier one was still suspended.
C13_Witness ==
    /\ BagCardinality(cycles) >= 2
    /\ started.fired >= 1
    /\ \E c \in BagToSet(cycles) : c.pc # "fetching"

\* C14: stop() leaves the cycles in flight as they are, and once it has
\* returned each of them can still go on: its GET can still settle and lead
\* to a webhook POST, and its POST can still settle and end the cycle.
C14_StopLeavesCyclesRunning ==
    /\ ~ENABLED (Stop /\ <<cycles, completed>>' # <<cycles, completed>>)
    /\ (Stopped /\ NoCallbackDue) =>
           \A c \in BagToSet(cycles) :
               IF c.pc = "fetching"
               THEN ENABLED (\E resp \in Responses, templateThrows \in BOOLEAN :
                                /\ GetSettles(c, resp, templateThrows)
                                /\ \E c2 \in BagToSet(cycles') :
                                       c2.pc \in {"postingError", "postingSuccess"})
               ELSE ENABLED (\E ok \in BOOLEAN :
                                PostSettles(c, ok) /\ completed'.pc = "done")

\* Every task is stopped while a cycle dispatched before is still suspended.
C14_Witness ==
    /\ Stopped
    /\ ActiveTimers = {}
    /\ cycles # EmptyBag

\* C15: within a cycle the GET has completed before the payload is validated,
\* validation has succeeded before the transform runs, and the transform has
\* run before the success POST, which carries the validated payload.
C15_OrderWithinCycle ==
    \A c \in AllCycles :
        /\ c.trace[1] = "get"
        /\ \A i \in DOMAIN c.trace :
               /\ c.trace[i] \in {"validateOk", "validateFailed"}
                      => (i > 1 /\ c.trace[i - 1] = "getOk" /\ c.resp.ok)
               /\ c.trace[i] = "transform"
                      => (i > 1 /\ c.trace[i - 1] = "validateOk")
               /\ c.trace[i] = "postSuccess"
                      => /\ i > 1 /\ c.trace[i - 1] = "transform"
                         /\ \E j \in 1 .. i - 1 : c.trace[j] = "validateOk"
                         /\ c.resp.ok
                         /\ SafeParse(schema, c.resp.data).success
                         /\ c.body = SuccessBody(SafeParse(schema, c.resp.data).data)

\* A cycle has gone through GET, validation, transform and success POST.
C15_Witness ==
    /\ Done
    /\ Has(completed.trace, "postSuccess")
    /\ Has(completed.trace, "postOk")

\* The service was started, every task it registered has been stopped, and
\* start() can be called.
Reusable ==
    /\ cronJob # 0 /\ ActiveTimers = {}
    /\ Len(timers) < MaxStarts /\ NoCallbackDue /\ CanDispatch

\* The service was stopped and started again: only its latest task runs.
Restarted == cronJob >= 2 /\ ActiveTimers = {cronJob}

\* What start() on a stopped service must bring about.
ReuseEffect ==
    /\ Cardinality({t \in DOMAIN timers' : timers'[t].active}) = 1
    /\ timers'[cronJob'].active
    /\ cycles' = cycles (+) One(RunPolling)

\* C16: start() on a stopped service leaves exactly one running task and
\* dispatches one immediate cycle; afterwards the task becomes due at its
\* minutes again and its callback dispatches a cycle.
C16_StoppedServiceReusable ==
    /\ Reusable => (ENABLED (Start /\ ReuseEffect)
                        /\ ~ENABLED (Start /\ ~ReuseEffect))
    /\ (Restarted /\ CronMatches(timers[cronJob].every, now + 1)
                  /\ ENABLED MinuteBoundary)
           => ENABLED (MinuteBoundary /\ timers'[cronJob].pending)
    /\ (Restarted /\ timers[cronJob].pending)
           => ENABLED (Fire(cronJob) /\ cycles' = cycles (+) One(RunPolling))

\* After start(), stop(), start() the second task has fired.
C16_Witness ==
    /\ Restarted
    /\ started.immediate = 1
    /\ started.fired >= 1

\* A setting is usable: a URL string, or a string that is a positive integer.
SettingValid(f, v) ==
    /\ v.kind = "string"
    /\ IF f = "POLL_INTERVAL"
       THEN ~ToNumber(v).nan /\ ToNumber(v).n >= 1
       ELSE IsUrl(v.s)
InvalidSettings(env) ==
    {f \in {EnvFields[i] : i \in DOMAIN EnvFields} : ~SettingValid(f, env[f])}

\* C17: once main() has run with a setting missing or invalid, the process
\* has exited with code 1, no service was constructed or started, no cycle
\* has run, and the diagnostic names every invalid setting.
C17_InvalidEnvPreventsStartup ==
    (process.phase # "main" /\ InvalidSettings(process.env) # {})
    => /\ process.phase = "exited" /\ process.exitCode = 1
       /\ config = NoConfig /\ schema = "undefined"
       /\ cronJob = 0 /\ timers = <<>>
       /\ cycles = EmptyBag /\ completed = NoCycle
       /\ {process.diagnostic[i].path : i \in DOMAIN process.diagnostic}
              = InvalidSettings(process.env)

\* main() has refused an environment in which all three settings are unusable.
C17_Witness ==
    /\ process.phase = "exited"
    /\ process.exitCode = 1
    /\ Cardinality(InvalidSettings(process.env)) = 3
    /\ Len(process.diagnostic) = 3

C19_NullIffErrorPost ==
    \A c \in AllCycles :
        c.fetched # Undefined
            => /\ (c.fetched = Null) <=> (ErrorPosts(c) = 1)
               /\ (c.fetched # Null) => (ErrorPosts(c) = 0)

\* C20: no step of a poll cycle changes config, schema or cronJob; no step
\* other than start() changes cronJob; no step at all changes config or
\* schema.  (The transform is a constructor argument no statement assigns.)
C20_CycleFrame ==
    [][/\ (FireStep \/ CycleStep) => UNCHANGED <<config, schema, cronJob>>
       /\ cronJob' # cronJob => Start
       /\ UNCHANGED <<config, schema>>]_vars

\* Cycles have run to their end and start() and stop() have both been
\* called, the task having fired in between.
C20_Witness ==
    /\ Done
    /\ Stopped
    /\ started.fired >= 1

====
